---- MODULE Spec2Model ----
(***************************************************************************)
(* AsyncI2CBuzzer (src/src/async_buzzer.py): a playlist of notes drained   *)
(* by a cooperative uasyncio task that writes each note to the buzzer over *)
(* I2C and sleeps for the note's duration.                                 *)
(*                                                                         *)
(* Python lists are mutable objects, so the model keeps a heap of lists    *)
(* (lists) and every reference to a list is a list id.  A step of the      *)
(* model is what runs between two suspension points of the event loop: a   *)
(* whole call of add() or replace(), or one run of a task from the point   *)
(* where it is resumed to its next await (or to its end).                  *)
(***************************************************************************)
EXTENDS Integers, Sequences, FiniteSets, TLC

\* Bounds of the model.
MaxCalls == 2      \* add()/replace() calls made in one behaviour
LongCalls == 4     \* the same, in the longer behaviours of LongSpec
MaxQueue == 3      \* longest list an extend() may produce

\* Program constants.
DefaultAddr == 52  \* __init__(self, i2c, addr = 52)
MemAddr == 3       \* writeto_mem(self.addr, 3, msg)
PlayCmd == 1       \* the trailing b'\x01'

NoTask == 0        \* player_task is None

\* Two buzzer instances, each with the list its constructor creates, and two
\* list objects owned by the callers.
Buzzers == {1, 2}
CallerLists == {3, 4}
ListIds == Buzzers \cup CallerLists

\* notes are tuples (frequency, volume, duration)
C4Note == <<262, 1, 1000>>
Silence == <<0, 4, 600>>
PlayNotes == {C4Note, Silence}

\* the lists the callers build
Tunes == {<<>>, <<C4Note>>, <<Silence>>, <<C4Note, Silence>>}

VARIABLES
    lists,          \* heap: list id -> the list's elements
    notes_to_play,  \* buzzer -> id of the list self.notes_to_play refers to
    player_task,    \* buzzer -> task id, or NoTask
    tasks,          \* every task created so far, by id
    calls,          \* history: number of add()/replace() calls made
    hist,           \* history: buzzer -> its latest call, "add" or "replace"; "fresh" before
    owed,           \* history: buzzer -> the notes handed to it by its last replace()
                    \*   and its add() calls since, less those it has transmitted
    stale,          \* history: buzzer -> messages of the notes its replace() calls dropped
    failed,         \* history: buzzer -> a task of it died from an exception
    last,           \* history: the step just taken, with the bus writes it made
    arg,            \* the call of a conversion function the caller makes
    ret             \* what that call returned or raised

\* the variables of the buzzers and their tasks
buzzers == <<lists, notes_to_play, player_task, tasks,
             calls, hist, owed, stale, failed, last>>

vars == <<buzzers, arg, ret>>

\* no conversion function is called
NoCall == [fn |-> "none"]

\* the conversion function has not returned
Pending == [exc |-> "pending", notes |-> <<>>]

----------------------------------------------------------------------------
\* The buzzer object

addr(b) == DefaultAddr + (b - 1)

Queue(b) == lists[notes_to_play[b]]

is_playing(b) == player_task[b] # NoTask

\* to_bytes with the byte order reversed
to_bytes_little(x, n) == [i \in 1..n |-> (x \div (256 ^ (i - 1))) % 256]

\* int.to_bytes(n, 'big') of a value that fits in n bytes; of a larger value
\* it is the low n bytes on the builds that do not check the size.
to_bytes(x, n) == [i \in 1..n |-> (x \div (256 ^ (n - i))) % 256]

\* to_bytes taking the value as a signed one
Fits_signed(x, n) == x >= 0 /\ 2 * x < 256 ^ n

\* the values to_bytes(n, 'big') encodes in full
Fits(x, n) == x >= 0 /\ x < 256 ^ n

Message(freq, volume, duration) ==
    to_bytes(freq, 2) \o to_bytes(volume, 1) \o to_bytes(duration, 2) \o <<PlayCmd>>

\* The outcomes of __send_note: the write, or an exception.  writeto_mem
\* raises OSError when the bus write does not complete; to_bytes of a value
\* that does not fit raises OverflowError or truncates, depending on the build.
send_note(b, freq, volume, duration) ==
    LET fits == Fits(freq, 2) /\ Fits(volume, 1) /\ Fits(duration, 2)
        write == [addr |-> addr(b), memaddr |-> MemAddr,
                  buf |-> Message(freq, volume, duration)]
    IN  {[exc |-> "OSError", writes |-> <<>>]}
          \cup (IF fits THEN {} ELSE {[exc |-> "OverflowError", writes |-> <<>>]})
          \cup {[exc |-> "None", writes |-> <<write>>]}

\* The literal 0.99 as a single-precision float is Single099 / 2^24; the
\* significand is kept in two 12-bit limbs so that every product below stays
\* under 2^31.
Single099 == 16609444
Limb == 4096
SignificandBits == 24

RECURSIVE BitLength(_)
BitLength(n) == IF n = 0 THEN 0 ELSE 1 + BitLength(n \div 2)

\* int(0.99 * d) on a build whose floats are single precision: d (below 2^19)
\* converts exactly, the exact product d * Single099 is rounded to 24
\* significant bits, ties to even, and int() drops the fraction.
AdjustedDurationSingle(d) ==
    LET lo == d * (Single099 % Limb)
        A == d * (Single099 \div Limb) + lo \div Limb    \* product = A * Limb + B
        B == lo % Limb
        s == BitLength(A) + 12 - SignificandBits           \* bits rounded away
        q == IF s >= 12 THEN A \div 2 ^ (s - 12)
                        ELSE A * 2 ^ (12 - s) + B \div 2 ^ s
        rem == IF s >= 12 THEN (A % 2 ^ (s - 12)) * Limb + B ELSE B % 2 ^ s
        up == s > 0 /\ (2 * rem > 2 ^ s \/ (2 * rem = 2 ^ s /\ q % 2 = 1))
        rounded == IF up THEN q + 1 ELSE q
    IN  IF d = 0 THEN 0 ELSE rounded \div 2 ^ (SignificandBits - s)

\* int(0.99 * d) with the product rounded to the nearest integer
AdjustedDuration_rounded(d) == (99 * d + 50) \div 100

\* int(0.99 * d) on a build whose floats are double precision: the literal is
\* 0.99 - 8.9e-18 and the product is rounded to 53 significant bits, which
\* for every d below 10^13 leaves it on the same side of each integer as
\* 99 * d / 100, so int() gives floor(99 * d / 100).
AdjustedDuration(d) == (99 * d) \div 100

\* int(0.99 * d) on the builds of MicroPython
AdjustedDurations(d) == {AdjustedDuration(d), AdjustedDurationSingle(d)}

\* list.pop() in place of list.pop(0)
pop_last(q) == [note |-> q[Len(q)], rest |-> SubSeq(q, 1, Len(q) - 1)]

\* list.pop(0)
pop0(q) == [note |-> Head(q), rest |-> Tail(q)]

\* list.extend
extend(q, notes) == q \o notes

----------------------------------------------------------------------------
\* Tasks of the event loop.  A task is "new" (created, not yet run), "sleep"
\* (suspended in await uasyncio.sleep_ms) or "done" (it returned, or an
\* exception left its coroutine); cancel is a CancelledError waiting to be
\* thrown into it.

NewTask(b) == [owner |-> b, st |-> "new", cancel |-> FALSE, sleep_ms |-> 0]

Finished == [owner |-> 0, st |-> "done", cancel |-> FALSE, sleep_ms |-> 0]

Runnable(t) == t \in 1..Len(tasks) /\ tasks[t].st \in {"new", "sleep"}

\* uasyncio.create_task(self.__play_notes())
create_task(ts, b) == Append(ts, NewTask(b))

\* Task.cancel(): nothing for a finished task, else CancelledError is thrown
\* into the task when it is next run.
cancel(ts, t) ==
    IF ts[t].st \in {"new", "sleep"} THEN [ts EXCEPT ![t].cancel = TRUE] ELSE ts

\* add() with the test inverted
add_starts_task_inverted(b, l) == player_task[b] # NoTask

\* add() that starts no task for an empty sequence
add_starts_task_nonempty(b, l) == player_task[b] = NoTask /\ lists[l] # <<>>

\* add(): "if not self.player_task"
add_starts_task(b, l) == player_task[b] = NoTask

\* replace() that keeps the list it had
replace_target_kept(b, l) == notes_to_play[b]

\* replace(): "self.notes_to_play = notes"
replace_target(b, l) == l

\* replace() that does not cancel
replace_no_cancel(ts, b) == ts

\* replace(): "if self.player_task: self.player_task.cancel()"
replace_cancel(ts, b) ==
    IF player_task[b] # NoTask THEN cancel(ts, player_task[b]) ELSE ts

\* __play_notes returning without "self.player_task = None"
retire_kept(pt, b) == pt

\* __play_notes: "self.player_task = None"
retire(pt, b) == [pt EXCEPT ![b] = NoTask]

\* __play_notes sleeping for the duration it sent
sleep_ms_adjusted(next_note) == AdjustedDuration(next_note[3])

\* __play_notes: the argument of "await uasyncio.sleep_ms(next_note[2])"
sleep_ms(next_note) == next_note[3]

\* the write a note is transmitted as by buzzer b
Wire(b, note) ==
    [addr |-> addr(b), memaddr |-> MemAddr,
     buf |-> Message(note[1], note[2], AdjustedDuration(note[3]))]

Bufs(b, ns) == {Wire(b, ns[i]).buf : i \in 1..Len(ns)}

Step(b, op, n, idle, writes, exc) ==
    [b |-> b, op |-> op, n |-> n, idle |-> idle, writes |-> writes, exc |-> exc]

----------------------------------------------------------------------------
Fresh(pool) ==
    /\ lists = [l \in ListIds |-> IF l \in Buzzers THEN <<>> ELSE pool[l]]
    /\ notes_to_play = [b \in Buzzers |-> b]
    /\ player_task = [b \in Buzzers |-> NoTask]
    /\ tasks = <<>>
    /\ calls = 0
    /\ hist = [b \in Buzzers |-> "fresh"]
    /\ owed = [b \in Buzzers |-> <<>>]
    /\ stale = [b \in Buzzers |-> {}]
    /\ failed = [b \in Buzzers |-> FALSE]
    /\ last = Step(0, "init", 0, TRUE, <<>>, "None")

Init == (\E pool \in [CallerLists -> Tunes] : Fresh(pool)) /\ arg = NoCall /\ ret = Pending

\* add(notes)
Add(b, l) ==
    /\ Len(Queue(b)) + Len(lists[l]) <= MaxQueue
    /\ lists' = [lists EXCEPT ![notes_to_play[b]] = extend(@, lists[l])]
    /\ IF add_starts_task(b, l)
          THEN /\ tasks' = create_task(tasks, b)
               /\ player_task' = [player_task EXCEPT ![b] = Len(tasks) + 1]
          ELSE UNCHANGED <<tasks, player_task>>
    /\ calls' = calls + 1
    /\ hist' = [hist EXCEPT ![b] = "add"]
    /\ owed' = [owed EXCEPT ![b] = @ \o lists[l]]
    /\ stale' = [c \in Buzzers |->
                    IF notes_to_play[c] = notes_to_play[b]
                       THEN stale[c] \ Bufs(c, lists[l]) ELSE stale[c]]
    /\ last' = Step(b, "add", Len(lists[l]), ~is_playing(b), <<>>, "None")
    /\ UNCHANGED <<notes_to_play, failed, arg, ret>>

\* replace(notes)
Replace(b, l) ==
    /\ notes_to_play' = [notes_to_play EXCEPT ![b] = replace_target(b, l)]
    /\ tasks' = create_task(replace_cancel(tasks, b), b)
    /\ player_task' = [player_task EXCEPT ![b] = Len(tasks) + 1]
    /\ calls' = calls + 1
    /\ hist' = [hist EXCEPT ![b] = "replace"]
    /\ owed' = [owed EXCEPT ![b] = lists[l]]
    /\ stale' = [stale EXCEPT ![b] = (@ \cup Bufs(b, Queue(b))) \ Bufs(b, lists[l])]
    /\ last' = Step(b, "replace", Len(lists[l]), ~is_playing(b), <<>>, "None")
    /\ UNCHANGED <<lists, failed, arg, ret>>

\* __play_notes, one iteration: pop the note, send it, await sleep_ms
PlayNote(t) ==
    /\ Runnable(t) /\ ~tasks[t].cancel
    /\ LET b == tasks[t].owner
           p == pop0(Queue(b))
       IN  /\ Queue(b) # <<>>
           /\ \E adj \in AdjustedDurations(p.note[3]) :
              \E o \in send_note(b, p.note[1], p.note[2], adj) :
                 /\ o.exc = "None"
                 /\ last' = Step(b, "play", 0, FALSE, o.writes, o.exc)
           /\ lists' = [lists EXCEPT ![notes_to_play[b]] = p.rest]
           /\ tasks' = [tasks EXCEPT ![t].st = "sleep", ![t].sleep_ms = sleep_ms(p.note)]
           /\ owed' = [owed EXCEPT ![b] = IF @ = <<>> THEN @ ELSE Tail(@)]
    /\ UNCHANGED <<notes_to_play, player_task, calls, hist, stale, failed, arg, ret>>

\* __play_notes, one iteration in which __send_note raises: the exception
\* leaves the coroutine and the task ends
SendFails(t) ==
    /\ Runnable(t) /\ ~tasks[t].cancel
    /\ \A c \in Buzzers : ~failed[c]
    /\ LET b == tasks[t].owner
           p == pop0(Queue(b))
       IN  /\ Queue(b) # <<>>
           /\ \E adj \in AdjustedDurations(p.note[3]) :
              \E o \in send_note(b, p.note[1], p.note[2], adj) :
                 /\ o.exc # "None"
                 /\ last' = Step(b, "fail", 0, FALSE, o.writes, o.exc)
           /\ lists' = [lists EXCEPT ![notes_to_play[b]] = p.rest]
           /\ tasks' = [tasks EXCEPT ![t] = Finished]
           /\ failed' = [failed EXCEPT ![b] = TRUE]
    /\ UNCHANGED <<notes_to_play, player_task, calls, hist, owed, stale, arg, ret>>

\* __play_notes finds the list empty: self.player_task = None, and returns
Retire(t) ==
    /\ Runnable(t) /\ ~tasks[t].cancel
    /\ Queue(tasks[t].owner) = <<>>
    /\ player_task' = retire(player_task, tasks[t].owner)
    /\ tasks' = [tasks EXCEPT ![t] = Finished]
    /\ last' = Step(tasks[t].owner, "retire", 0, FALSE, <<>>, "None")
    /\ UNCHANGED <<lists, notes_to_play, calls, hist, owed, stale, failed, arg, ret>>

\* a cancelled task is run: CancelledError is thrown at its await (or at its
\* start) and leaves the coroutine; no statement of __play_notes runs
Unwind(t) ==
    /\ Runnable(t) /\ tasks[t].cancel
    /\ tasks' = [tasks EXCEPT ![t] = Finished]
    /\ last' = Step(tasks[t].owner, "unwind", 0, FALSE, <<>>, "None")
    /\ UNCHANGED <<lists, notes_to_play, player_task, calls, hist, owed, stale, failed, arg, ret>>

TaskIds == 1..(MaxCalls + LongCalls)

Next ==
    \/ \E b \in Buzzers, l \in CallerLists : calls < MaxCalls /\ Add(b, l)
    \/ \E b \in Buzzers, l \in CallerLists : calls < MaxCalls /\ Replace(b, l)
    \/ \E t \in TaskIds : PlayNote(t)
    \/ \E t \in TaskIds : SendFails(t)
    \/ \E t \in TaskIds : Retire(t)
    \/ \E t \in TaskIds : Unwind(t)

Spec == Init /\ [][Next]_vars

\* the same program on a bus whose writes never fail, its callers making
\* more calls
NextLong ==
    \/ \E b \in Buzzers, l \in CallerLists : calls < LongCalls /\ Add(b, l)
    \/ \E b \in Buzzers, l \in CallerLists : calls < LongCalls /\ Replace(b, l)
    \/ \E t \in TaskIds : PlayNote(t)
    \/ \E t \in TaskIds : Retire(t)
    \/ \E t \in TaskIds : Unwind(t)

LongSpec == Init /\ [][NextLong]_vars

----------------------------------------------------------------------------
\* One note through __send_note: a caller hands a one-note list to add(),
\* once or again, and the task transmits it.  The note's fields take the values at which the
\* two-byte and one-byte encodings change.

ProbeFreqs == {0, 1, 255, 256, 262, 4978, 65535, 65536, 70000}
ProbeVolumes == 0..4
ProbeDurations == {0, 1, 100, 256, 258, 1000, 65535, 66197, 66198, 229401}
ProbeList == CHOOSE l \in CallerLists : \A m \in CallerLists : l <= m

InitProbe ==
    /\ \E f \in ProbeFreqs, v \in ProbeVolumes, d \in ProbeDurations :
          Fresh([l \in CallerLists |-> IF l = ProbeList THEN << <<f, v, d>> >> ELSE <<>>])
    /\ arg = NoCall /\ ret = Pending

NextProbe ==
    \/ \E b \in Buzzers : calls < MaxCalls /\ Add(b, ProbeList)
    \/ \E t \in TaskIds : PlayNote(t)
    \/ \E t \in TaskIds : SendFails(t)
    \/ \E t \in TaskIds : Retire(t)

ProbeSpec == InitProbe /\ [][NextProbe]_vars

----------------------------------------------------------------------------
\* tabs_to_notes.  A str is the sequence of its characters.

DEFAULT_VOLUME == 3

\* volume = None; no caller passes a negative volume
None == -1

MaxTokens == 2     \* most tokens in the tabs a caller writes

Modifiers == {"!", ":", ";", ".", "*", "-", "~", "_"}

\* class Pitches: some of its notes, the first and the last included
Pitches ==
    (<<"S">> :> 0) @@ (<<"B", "0">> :> 31) @@ (<<"C", "4">> :> 262)
      @@ (<<"D", "4">> :> 294) @@ (<<"D", "S", "8">> :> 4978)

\* what else the class statement binds in the class: the names of the module
\* and of the class, both of them strings
ClassAttributes ==
    (<<"_", "_", "m", "o", "d", "u", "l", "e", "_", "_">> :> "async_buzzer")
      @@ (<<"_", "_", "q", "u", "a", "l", "n", "a", "m", "e", "_", "_">> :> "Pitches")

\* getattr(Pitches, name)
getattr(name) ==
    IF name \in DOMAIN Pitches THEN [exc |-> "None", value |-> Pitches[name]]
    ELSE IF name \in DOMAIN ClassAttributes
            THEN [exc |-> "None", value |-> ClassAttributes[name]]
            ELSE [exc |-> "AttributeError", value |-> 0]

\* str.split(' '): a token ends at each space, so two spaces in a row, a
\* space at either end and the empty string all give an empty token
RECURSIVE split(_)
split(str) ==
    IF \A i \in 1..Len(str) : str[i] # " " THEN <<str>>
    ELSE LET i == CHOOSE k \in 1..Len(str) :
                      str[k] = " " /\ \A j \in 1..(k - 1) : str[j] # " "
         IN  <<SubSeq(str, 1, i - 1)>> \o split(SubSeq(str, i + 1, Len(str)))

\* the length a modifier gives, as the fraction num / den of the division
\* the code makes
modified_length(c, unit_length) ==
    CASE c = "!" -> [num |-> unit_length, den |-> 8]
      [] c = ":" -> [num |-> unit_length, den |-> 4]
      [] c = ";" -> [num |-> unit_length, den |-> 3]
      [] c = "." -> [num |-> unit_length, den |-> 2]
      [] c = "*" -> [num |-> 3 * unit_length, den |-> 2]
      [] c = "-" -> [num |-> 2 * unit_length, den |-> 1]
      [] c = "~" -> [num |-> 3 * unit_length, den |-> 1]
      [] c = "_" -> [num |-> 4 * unit_length, den |-> 1]

\* int(length) with the fraction rounded up
int_ceiling(length) == (length.num + length.den - 1) \div length.den

\* int(length) of a non-negative length: the float quotient of two integers
\* below 2^22 is on the same side of every integer as the fraction itself
int(length) == length.num \div length.den

\* the body of the loop for one token
tab_note(txt_note, volume, unit_length) ==
    IF txt_note = <<>> THEN [exc |-> "IndexError", note |-> <<>>]
    ELSE LET c == txt_note[Len(txt_note)]
             name == IF c \in Modifiers
                        THEN SubSeq(txt_note, 1, Len(txt_note) - 1) ELSE txt_note
             length == IF c \in Modifiers THEN modified_length(c, unit_length)
                                          ELSE [num |-> unit_length, den |-> 1]
             pitch == getattr(name)
         IN  IF pitch.exc # "None" THEN [exc |-> pitch.exc, note |-> <<>>]
             ELSE [exc |-> "None", note |-> <<pitch.value, volume, int(length)>>]

\* the loop: the first exception ends the call
RECURSIVE tab_notes(_, _, _)
tab_notes(tokens, volume, unit_length) ==
    IF tokens = <<>> THEN [exc |-> "None", notes |-> <<>>]
    ELSE LET n == tab_note(Head(tokens), volume, unit_length)
             r == tab_notes(Tail(tokens), volume, unit_length)
         IN  IF n.exc # "None" THEN [exc |-> n.exc, notes |-> <<>>]
             ELSE IF r.exc # "None" THEN r
             ELSE [exc |-> "None", notes |-> <<n.note>> \o r.notes]

tabs_to_notes(tabs, volume, unit_length) ==
    tab_notes(split(tabs), IF volume = None THEN DEFAULT_VOLUME ELSE volume, unit_length)

\* The tabs the callers write: tokens of a name and at most one modifier,
\* with one space between tokens.
TabNames ==
    {<<>>, <<"C", "4">>, <<"D", "4">>, <<"X", "9">>,
     <<"_", "_", "q", "u", "a", "l", "n", "a", "m", "e", "_", "_">>}
TabTokens == [name : TabNames, mod : {<<>>} \cup {<<c>> : c \in Modifiers}]
TabVolumes == {None, 2}
TabUnits == {400, 401}

RECURSIVE join(_)
join(tokens) ==
    IF Len(tokens) = 1 THEN tokens[1].name \o tokens[1].mod
    ELSE tokens[1].name \o tokens[1].mod \o <<" ">> \o join(Tail(tokens))

\* a call of tabs_to_notes; tokens is history, the tokens the tabs were
\* written from
TabsCall(tokens, volume, unit_length) ==
    [fn |-> "tabs_to_notes", tokens |-> tokens, tabs |-> join(tokens),
     volume |-> volume, unit_length |-> unit_length]

InitTabs ==
    /\ \E pool \in [CallerLists -> {<<>>}] : Fresh(pool)
    /\ \E n \in 1..MaxTokens : \E tokens \in [1..n -> TabTokens] :
          \E volume \in TabVolumes, unit_length \in TabUnits :
             arg = TabsCall(tokens, volume, unit_length)
    /\ ret = Pending

\* tabs_to_notes returns
TabsToNotes ==
    /\ ret = Pending
    /\ LET r == tabs_to_notes(arg.tabs, arg.volume, arg.unit_length)
       IN  r.exc = "None" /\ ret' = r
    /\ UNCHANGED <<buzzers, arg>>

\* tabs_to_notes raises
TabsToNotesRaises ==
    /\ ret = Pending
    /\ LET r == tabs_to_notes(arg.tabs, arg.volume, arg.unit_length)
       IN  r.exc # "None" /\ ret' = r
    /\ UNCHANGED <<buzzers, arg>>

NextTabs == TabsToNotes \/ TabsToNotesRaises

TabsSpec == InitTabs /\ [][NextTabs]_vars

----------------------------------------------------------------------------
\* text_to_morse_notes

MaxText == 2       \* most characters in the text a caller converts

\* str.lower() of one character: the ASCII capitals; every other character
\* of the texts below is its own lower case
Lowercase ==
    ("A" :> "a") @@ ("B" :> "b") @@ ("C" :> "c") @@ ("D" :> "d") @@
      ("E" :> "e") @@ ("F" :> "f") @@ ("G" :> "g") @@ ("H" :> "h") @@
      ("I" :> "i") @@ ("J" :> "j") @@ ("K" :> "k") @@ ("L" :> "l") @@
      ("M" :> "m") @@ ("N" :> "n") @@ ("O" :> "o") @@ ("P" :> "p") @@
      ("Q" :> "q") @@ ("R" :> "r") @@ ("S" :> "s") @@ ("T" :> "t") @@
      ("U" :> "u") @@ ("V" :> "v") @@ ("W" :> "w") @@ ("X" :> "x") @@
      ("Y" :> "y") @@ ("Z" :> "z")

\* the branches of the if/elif chain: the list each symbol extends the notes by
Branches ==
    (" " :> <<"word_sep">>)
       @@ ("a" :> <<"short_note", "silent_note", "long_note", "letter_sep">>)
       @@ ("b" :> <<"long_note", "silent_note", "short_note", "silent_note", "short_note", "silent_note", "short_note", "letter_sep">>)
       @@ ("c" :> <<"long_note", "silent_note", "short_note", "silent_note", "long_note", "silent_note", "short_note", "letter_sep">>)
       @@ ("d" :> <<"long_note", "silent_note", "short_note", "silent_note", "short_note", "letter_sep">>)
       @@ ("e" :> <<"short_note", "letter_sep">>)
       @@ ("f" :> <<"short_note", "silent_note", "short_note", "silent_note", "long_note", "silent_note", "short_note", "letter_sep">>)
       @@ ("g" :> <<"long_note", "silent_note", "long_note", "silent_note", "short_note", "letter_sep">>)
       @@ ("h" :> <<"short_note", "silent_note", "short_note", "silent_note", "short_note", "silent_note", "short_note", "letter_sep">>)
       @@ ("i" :> <<"short_note", "silent_note", "short_note", "letter_sep">>)
       @@ ("j" :> <<"short_note", "silent_note", "long_note", "silent_note", "long_note", "silent_note", "long_note", "letter_sep">>)
       @@ ("k" :> <<"long_note", "silent_note", "short_note", "silent_note", "long_note", "letter_sep">>)
       @@ ("l" :> <<"short_note", "silent_note", "long_note", "silent_note", "short_note", "silent_note", "short_note", "letter_sep">>)
       @@ ("m" :> <<"long_note", "silent_note", "long_note", "letter_sep">>)
       @@ ("n" :> <<"long_note", "silent_note", "short_note", "letter_sep">>)
       @@ ("o" :> <<"long_note", "silent_note", "long_note", "silent_note", "long_note", "letter_sep">>)
       @@ ("p" :> <<"short_note", "silent_note", "long_note", "silent_note", "long_note", "silent_note", "short_note", "letter_sep">>)
       @@ ("q" :> <<"long_note", "silent_note", "long_note", "silent_note", "short_note", "silent_note", "long_note", "letter_sep">>)
       @@ ("r" :> <<"short_note", "silent_note", "long_note", "silent_note", "short_note", "letter_sep">>)
       @@ ("s" :> <<"short_note", "silent_note", "short_note", "silent_note", "short_note", "letter_sep">>)
       @@ ("t" :> <<"long_note", "letter_sep">>)
       @@ ("u" :> <<"short_note", "silent_note", "short_note", "silent_note", "long_note", "letter_sep">>)
       @@ ("v" :> <<"short_note", "silent_note", "short_note", "silent_note", "short_note", "silent_note", "long_note", "letter_sep">>)
       @@ ("w" :> <<"short_note", "silent_note", "long_note", "silent_note", "long_note", "letter_sep">>)
       @@ ("x" :> <<"long_note", "silent_note", "short_note", "silent_note", "short_note", "silent_note", "long_note", "letter_sep">>)
       @@ ("y" :> <<"long_note", "silent_note", "short_note", "silent_note", "long_note", "silent_note", "long_note", "letter_sep">>)
       @@ ("z" :> <<"long_note", "silent_note", "long_note", "silent_note", "short_note", "silent_note", "short_note", "letter_sep">>)
       @@ ("1" :> <<"short_note", "silent_note", "long_note", "silent_note", "long_note", "silent_note", "long_note", "silent_note", "long_note", "letter_sep">>)
       @@ ("2" :> <<"short_note", "silent_note", "short_note", "silent_note", "long_note", "silent_note", "long_note", "silent_note", "long_note", "letter_sep">>)
       @@ ("3" :> <<"short_note", "silent_note", "short_note", "silent_note", "short_note", "silent_note", "long_note", "silent_note", "long_note", "letter_sep">>)
       @@ ("4" :> <<"short_note", "silent_note", "short_note", "silent_note", "short_note", "silent_note", "short_note", "silent_note", "long_note", "letter_sep">>)
       @@ ("5" :> <<"short_note", "silent_note", "short_note", "silent_note", "short_note", "silent_note", "short_note", "silent_note", "short_note", "letter_sep">>)
       @@ ("6" :> <<"long_note", "silent_note", "short_note", "silent_note", "short_note", "silent_note", "short_note", "silent_note", "short_note", "letter_sep">>)
       @@ ("7" :> <<"long_note", "silent_note", "long_note", "silent_note", "short_note", "silent_note", "short_note", "silent_note", "short_note", "letter_sep">>)
       @@ ("8" :> <<"long_note", "silent_note", "long_note", "silent_note", "long_note", "silent_note", "short_note", "silent_note", "short_note", "letter_sep">>)
       @@ ("9" :> <<"long_note", "silent_note", "long_note", "silent_note", "long_note", "silent_note", "long_note", "silent_note", "short_note", "letter_sep">>)
       @@ ("0" :> <<"long_note", "silent_note", "long_note", "silent_note", "long_note", "silent_note", "long_note", "silent_note", "long_note", "letter_sep">>)

\* symbol.lower() left out
lower_omitted(c) == c

\* symbol = symbol.lower()
lower(c) == IF c \in DOMAIN Lowercase THEN Lowercase[c] ELSE c

\* "if not long_note": None and the empty tuple are both false
default_long_note(short_note, long_note) ==
    IF long_note = <<>> THEN <<short_note[1], short_note[2], 3 * short_note[3]>>
                        ELSE long_note

\* silent_note, letter_sep, word_sep: index 1, 2, 3 of sep_units
separator(sep_units, i, short_note) == <<Pitches[<<"S">>], 0, sep_units[i] * short_note[3]>>

\* one iteration of "for symbol in text": the notes it extends the list by
morse_symbol(symbol, short_note, long_note, sep_units) ==
    LET named == [short_note |-> short_note,
                  long_note |-> default_long_note(short_note, long_note),
                  silent_note |-> separator(sep_units, 1, short_note),
                  letter_sep |-> separator(sep_units, 2, short_note),
                  word_sep |-> separator(sep_units, 3, short_note)]
        branch == IF lower(symbol) \in DOMAIN Branches THEN Branches[lower(symbol)] ELSE <<>>
    IN  [i \in 1..Len(branch) |-> named[branch[i]]]

RECURSIVE text_to_morse_notes(_, _, _, _)
text_to_morse_notes(text, short_note, long_note, sep_units) ==
    IF text = <<>> THEN <<>>
    ELSE morse_symbol(Head(text), short_note, long_note, sep_units)
           \o text_to_morse_notes(Tail(text), short_note, long_note, sep_units)

\* The texts the callers convert: every character the code maps, some
\* capitals and a character it does not map.
TextChars == DOMAIN Branches \cup {"A", "N", "Z", "?"}
ShortNotes == {<<440, 2, 100>>}
LongNotes == {<<>>, <<300, 1, 50>>}
SepUnits == {<<1, 3, 7>>, <<2, 5, 9>>}

MorseCall(text, short_note, long_note, sep_units) ==
    [fn |-> "text_to_morse_notes", text |-> text, short_note |-> short_note,
     long_note |-> long_note, sep_units |-> sep_units]

InitMorse ==
    /\ \E pool \in [CallerLists -> {<<>>}] : Fresh(pool)
    /\ \E n \in 0..MaxText : \E text \in [1..n -> TextChars] :
          \E short_note \in ShortNotes, long_note \in LongNotes, sep_units \in SepUnits :
             arg = MorseCall(text, short_note, long_note, sep_units)
    /\ ret = Pending

\* text_to_morse_notes returns
TextToMorseNotes ==
    /\ ret = Pending
    /\ ret' = [exc |-> "None",
               notes |-> text_to_morse_notes(arg.text, arg.short_note,
                                             arg.long_note, arg.sep_units)]
    /\ UNCHANGED <<buzzers, arg>>

NextMorse == TextToMorseNotes

MorseSpec == InitMorse /\ [][NextMorse]_vars

\* The texts of several words: a few letters, a capital, a character the
\* code does not map, and the space.
MaxWordsText == 3  \* most characters in a text of words
WordChars == {"e", "t", "a", "N", "?", " "}

InitWords ==
    /\ \E pool \in [CallerLists -> {<<>>}] : Fresh(pool)
    /\ \E n \in 0..MaxWordsText : \E text \in [1..n -> WordChars] :
          \E short_note \in ShortNotes, long_note \in LongNotes, sep_units \in SepUnits :
             arg = MorseCall(text, short_note, long_note, sep_units)
    /\ ret = Pending

WordsSpec == InitWords /\ [][NextMorse]_vars

----------------------------------------------------------------------------
\* Vocabulary of the properties

\* the step just taken was an iteration of b's task that transmitted a note
Transmitted(b) == lists' # lists /\ last'.op = "play" /\ last'.b = b

\* replace() was never called on b: its list is still the constructor's
NeverReplaced(b) == notes_to_play[b] = b

\* b has a task that can still transmit
LiveTasks(b) ==
    {t \in 1..Len(tasks) : tasks[t].owner = b /\ Runnable(t) /\ ~tasks[t].cancel}

\* no task of b is left for the event loop to run
NoTaskLeft(b) == \A t \in 1..Len(tasks) : tasks[t].owner = b => ~Runnable(t)

NoFailure == \A b \in Buzzers : ~failed[b]

U16(buf, i) == buf[i] * 256 + buf[i + 1]

----------------------------------------------------------------------------
\* C1: on a buzzer that only ever had add() calls and no failed write, what
\* is still to be transmitted is at every moment exactly the queue (the notes
\* added, in call order, less those already sent), every transmission is the
\* oldest of them, and so nothing is owed once the queue has drained.
C1_AddsPlayedInOrder ==
    /\ [](\A b \in Buzzers : NeverReplaced(b) /\ ~failed[b] => owed[b] = Queue(b))
    /\ [][\A b \in Buzzers :
            Transmitted(b) /\ NeverReplaced(b) /\ ~failed[b] =>
                /\ owed[b] # <<>>
                /\ last'.writes = <<Wire(b, Head(owed[b]))>>
                /\ owed'[b] = Tail(owed[b])]_vars

\* an add() of notes arrived while the task was suspended with notes queued
C1_Witness ==
    \E b \in Buzzers :
        /\ NeverReplaced(b) /\ ~failed[b]
        /\ last.op = "add" /\ last.b = b /\ last.n > 0 /\ ~last.idle
        /\ Len(Queue(b)) > last.n
        /\ tasks[player_task[b]].st = "sleep"

\* C2: after replace(), no note that the call dropped from the queue is
\* transmitted (a dropped note is one that was queued before the call and is
\* neither in the new sequence nor added again afterwards).
C2_NoOldNoteAfterReplace ==
    [][\A b \in Buzzers : Transmitted(b) => last'.writes[1].buf \notin stale[b]]_vars

\* the new task has transmitted while the task cancelled in its suspension
\* has not yet been resumed, and replace() had dropped notes
C2_Witness ==
    \E b \in Buzzers :
        /\ stale[b] # {} /\ ~failed[b]
        /\ last.op = "play" /\ last.b = b
        /\ \E t \in 1..Len(tasks) :
              tasks[t].owner = b /\ tasks[t].st = "sleep" /\ tasks[t].cancel

\* C3: when the latest call on a buzzer was add(), no write has failed and no
\* task of the buzzer is left to run, every note handed to it has been
\* transmitted: a task never retires leaving an added note behind.
C3_AddedNotesAreTransmitted ==
    \A b \in Buzzers :
        hist[b] = "add" /\ NoFailure /\ NoTaskLeft(b) => owed[b] = <<>>

\* C4: is_playing() is false before the first call, true right after an
\* add() or replace() of a non-empty sequence, true as long as the buzzer has
\* a task that is new or suspended (whatever the queue holds), and it turns
\* false only when the task finds the queue empty and retires.
C4_IsPlaying ==
    /\ [](\A b \in Buzzers : hist[b] = "fresh" => ~is_playing(b))
    /\ [](last.op \in {"add", "replace"} /\ last.n > 0 => is_playing(last.b))
    /\ [](\A b \in Buzzers : LiveTasks(b) # {} => is_playing(b))
    /\ [][\A b \in Buzzers :
            is_playing(b) /\ ~is_playing(b)' =>
                last'.op = "retire" /\ last'.b = b /\ Queue(b) = <<>>]_vars

\* the last note's suspension: the queue is empty and the buzzer is playing
C4_Witness ==
    \E b \in Buzzers :
        /\ Queue(b) = <<>> /\ is_playing(b) /\ ~failed[b]
        /\ tasks[player_task[b]].st = "sleep" /\ ~tasks[player_task[b]].cancel

\* C5: when nothing is left for the event loop to run and no write has
\* failed, every buzzer is idle: its queue is empty and is_playing() is false.
C5_EndsIdle ==
    (NoFailure /\ \A t \in 1..Len(tasks) : ~Runnable(t)) =>
        \A b \in Buzzers : Queue(b) = <<>> /\ ~is_playing(b)

\* C6 as stated: after add() of an empty sequence on an idle buzzer no task
\* was started and is_playing() is false.
C6_EmptyAddIsNoOp ==
    last.op = "add" /\ last.n = 0 /\ last.idle =>
        ~is_playing(last.b) /\ LiveTasks(last.b) = {}

\* C6 amended: add() of an empty sequence on an idle buzzer starts a task and
\* is_playing() is true right after; a task that first runs on an empty queue
\* transmits nothing and retires, and is_playing() is false after it.
C6_EmptyAddStartsTask ==
    /\ [](last.op = "add" /\ last.n = 0 /\ last.idle =>
            /\ is_playing(last.b)
            /\ player_task[last.b] = Len(tasks)
            /\ tasks[Len(tasks)] = NewTask(last.b))
    /\ [][\A t \in 1..Len(tasks) :
            (/\ tasks[t].st = "new" /\ ~tasks[t].cancel /\ tasks'[t].st # "new"
             /\ Queue(tasks[t].owner) = <<>>) =>
                /\ last'.op = "retire" /\ last'.writes = <<>>
                /\ player_task'[tasks[t].owner] = NoTask]_vars

C6_Witness ==
    /\ last.op = "add" /\ last.n = 0 /\ last.idle
    /\ is_playing(last.b) /\ Queue(last.b) = <<>>

\* C7: a buzzer never has two tasks that can still transmit.
C7_OneLiveTask == \A b \in Buzzers : Cardinality(LiveTasks(b)) <= 1

\* replace() has created the new task while the cancelled one is not yet unwound
C7_Witness ==
    \E b \in Buzzers :
        /\ Cardinality(LiveTasks(b)) = 1
        /\ \E t \in 1..Len(tasks) :
              tasks[t].owner = b /\ Runnable(t) /\ tasks[t].cancel

\* C8: after a write of the task has failed, the live-task reference is
\* cleared and is_playing() is false.
C8_FailureClearsTask == last.op = "fail" => ~is_playing(last.b)

\* C9: a step of one buzzer (a call on it, or a run of its task) changes
\* nothing of another buzzer: not its queue, not its task reference.
C9_NoSharedState ==
    [][\A a \in Buzzers :
          last'.b # a => Queue(a)' = Queue(a) /\ player_task'[a] = player_task[a]]_vars

\* C10: a transmitted note is one write to register 3 at the buzzer's
\* address, six bytes long with 1 as the last; when the frequency and the
\* adjusted duration are below 65536 and the volume is at most 4, bytes 1-2
\* read big-endian are the frequency, byte 3 the volume and bytes 4-5 read
\* big-endian the adjusted duration.
C10_WireFormat ==
    last.op = "play" =>
        LET note == lists[ProbeList][1]
            w == last.writes[1]
            adj == AdjustedDuration(note[3])
        IN  /\ Len(last.writes) = 1
            /\ w.addr = addr(last.b) /\ w.memaddr = 3
            /\ Len(w.buf) = 6 /\ w.buf[6] = 1
            /\ \A i \in 1..6 : w.buf[i] \in 0..255
            /\ (note[1] <= 65535 /\ adj <= 65535 /\ note[2] <= 4) =>
                  /\ U16(w.buf, 1) = note[1]
                  /\ w.buf[3] = note[2]
                  /\ U16(w.buf, 4) = adj

\* the largest frequency and adjusted duration two bytes hold were transmitted
C10_Witness ==
    /\ last.op = "play"
    /\ lists[ProbeList][1][1] = 65535
    /\ AdjustedDuration(lists[ProbeList][1][3]) = 65535
    /\ last.writes[1].buf = <<255, 255, lists[ProbeList][1][2], 255, 255, 1>>

----------------------------------------------------------------------------
\* the note of the probe and the fields decoded from the write just made
ProbeNote == lists[ProbeList][1]

SentDuration == U16(last.writes[1].buf, 4)

SentFrequency == U16(last.writes[1].buf, 1)

\* f is floor(99 * d / 100), below d unless d is 0
IsFloor99(f, d) ==
    /\ 100 * f <= 99 * d /\ 99 * d < 100 * (f + 1)
    /\ f <= d
    /\ (d >= 1 => f < d)

\* C11 as stated: the duration field of every transmitted note is
\* floor(99 * d / 100) of its nominal duration d, at most d, and below d when
\* d is at least 1.
C11_AdjustedDurationAnyNote ==
    last.op = "play" => IsFloor99(SentDuration, ProbeNote[3])

\* C11 amended: the same for every nominal duration d up to 66197, the
\* largest whose floor(99 * d / 100) fits the two-byte field.
C11_AdjustedDurationInField ==
    last.op = "play" /\ 99 * ProbeNote[3] < 65536 * 100 =>
        IsFloor99(SentDuration, ProbeNote[3])

\* the longest duration the field holds was transmitted as 65535
C11_Witness ==
    /\ last.op = "play"
    /\ ProbeNote[3] = 66197
    /\ SentDuration = 65535

----------------------------------------------------------------------------
\* the multiple of the unit length each modifier stands for, as a fraction
Multiple(mod) ==
    CASE mod = <<>> -> <<1, 1>>
      [] mod = <<"!">> -> <<1, 8>>
      [] mod = <<":">> -> <<1, 4>>
      [] mod = <<";">> -> <<1, 3>>
      [] mod = <<".">> -> <<1, 2>>
      [] mod = <<"*">> -> <<3, 2>>
      [] mod = <<"-">> -> <<2, 1>>
      [] mod = <<"~">> -> <<3, 1>>
      [] mod = <<"_">> -> <<4, 1>>

\* d is m * unit with its fraction dropped
IsTruncated(d, m, unit) == m[2] * d <= m[1] * unit /\ m[1] * unit < m[2] * (d + 1)

\* every token of the call names a note of the pitch table
TabsNamePitches == \A i \in 1..Len(arg.tokens) : arg.tokens[i].name \in DOMAIN Pitches

\* C12: for tabs whose tokens all name a note of the pitch table,
\* tabs_to_notes returns one note per token, in token order: its frequency
\* the table's value for the name, its volume the volume given, its duration
\* the unit length times 1/8, 1/4, 1/3, 1/2, 1, 3/2, 2, 3, 4 for the modifier
\* ! : ; . (none) * - ~ _ with the fraction dropped.
C12_OneNotePerToken ==
    ret # Pending /\ TabsNamePitches =>
        /\ ret.exc = "None"
        /\ Len(ret.notes) = Len(arg.tokens)
        /\ \A i \in 1..Len(arg.tokens) :
              /\ ret.notes[i][1] = Pitches[arg.tokens[i].name]
              /\ arg.volume # None => ret.notes[i][2] = arg.volume
              /\ IsTruncated(ret.notes[i][3], Multiple(arg.tokens[i].mod), arg.unit_length)

\* "C4- D4" at volume 2 and unit length 400 gave (262, 2, 800), (294, 2, 400)
C12_Witness ==
    /\ arg.tabs = <<"C", "4", "-", " ", "D", "4">>
    /\ arg.volume = 2 /\ arg.unit_length = 400
    /\ ret = [exc |-> "None", notes |-> << <<262, 2, 800>>, <<294, 2, 400>> >>]

\* C14: tabs_to_notes raises, returning no list, whenever a token's pitch
\* part is not a name of the pitch table: an empty token, a token that is
\* only a modifier, or any other name.
C14_UnknownPitchRaises ==
    ret # Pending /\ ~TabsNamePitches => ret.exc # "None" /\ ret.notes = <<>>

----------------------------------------------------------------------------
\* International Morse code of the letters and the digits
InternationalMorse ==
    ("a" :> <<".", "-">>) @@ ("b" :> <<"-", ".", ".", ".">>) @@
      ("c" :> <<"-", ".", "-", ".">>) @@ ("d" :> <<"-", ".", ".">>) @@
      ("e" :> <<".">>) @@ ("f" :> <<".", ".", "-", ".">>) @@
      ("g" :> <<"-", "-", ".">>) @@ ("h" :> <<".", ".", ".", ".">>) @@
      ("i" :> <<".", ".">>) @@ ("j" :> <<".", "-", "-", "-">>) @@
      ("k" :> <<"-", ".", "-">>) @@ ("l" :> <<".", "-", ".", ".">>) @@
      ("m" :> <<"-", "-">>) @@ ("n" :> <<"-", ".">>) @@
      ("o" :> <<"-", "-", "-">>) @@ ("p" :> <<".", "-", "-", ".">>) @@
      ("q" :> <<"-", "-", ".", "-">>) @@ ("r" :> <<".", "-", ".">>) @@
      ("s" :> <<".", ".", ".">>) @@ ("t" :> <<"-">>) @@
      ("u" :> <<".", ".", "-">>) @@ ("v" :> <<".", ".", ".", "-">>) @@
      ("w" :> <<".", "-", "-">>) @@ ("x" :> <<"-", ".", ".", "-">>) @@
      ("y" :> <<"-", ".", "-", "-">>) @@ ("z" :> <<"-", "-", ".", ".">>) @@
      ("0" :> <<"-", "-", "-", "-", "-">>) @@
      ("1" :> <<".", "-", "-", "-", "-">>) @@
      ("2" :> <<".", ".", "-", "-", "-">>) @@
      ("3" :> <<".", ".", ".", "-", "-">>) @@
      ("4" :> <<".", ".", ".", ".", "-">>) @@
      ("5" :> <<".", ".", ".", ".", ".">>) @@
      ("6" :> <<"-", ".", ".", ".", ".">>) @@
      ("7" :> <<"-", "-", ".", ".", ".">>) @@
      ("8" :> <<"-", "-", "-", ".", ".">>) @@
      ("9" :> <<"-", "-", "-", "-", ".">>)

\* c is the letter or digit l, in either case
SameLetter(c, l) == c = l \/ (c \in DOMAIN Lowercase /\ Lowercase[c] = l)

MorseOf(c) ==
    IF \E l \in DOMAIN InternationalMorse : SameLetter(c, l)
       THEN InternationalMorse[CHOOSE l \in DOMAIN InternationalMorse : SameLetter(c, l)]
       ELSE <<>>

\* the dot and the dash of the call, and its silences
Dot == arg.short_note

Dash ==
    IF arg.long_note = <<>>
       THEN <<arg.short_note[1], arg.short_note[2], 3 * arg.short_note[3]>>
       ELSE arg.long_note

Gap(i) == <<0, 0, arg.sep_units[i] * arg.short_note[3]>>

\* the symbols of a code with one silence between neighbours, then one
\* letter separator; nothing for a character without a code
Keyed(code) ==
    IF code = <<>> THEN <<>>
    ELSE [i \in 1..(2 * Len(code)) |->
            IF i = 2 * Len(code) THEN Gap(2)
            ELSE IF i % 2 = 0 THEN Gap(1)
            ELSE IF code[(i + 1) \div 2] = "." THEN Dot ELSE Dash]

RECURSIVE KeyedText(_)
KeyedText(text) ==
    IF text = <<>> THEN <<>> ELSE Keyed(MorseOf(Head(text))) \o KeyedText(Tail(text))

\* C13: for a text without spaces text_to_morse_notes returns, character by
\* character, the character's Morse symbols (dot the short note, dash the
\* long note) with exactly one silence between consecutive symbols and one
\* letter separator after the last, and nothing for a character that has no
\* code.
C13_MorseOfLetters ==
    ret # Pending /\ (\A i \in 1..Len(arg.text) : arg.text[i] # " ") =>
        ret.exc = "None" /\ ret.notes = KeyedText(arg.text)

\* "N?" with the default dash: dash, silence, dot, letter separator
C13_Witness ==
    /\ arg.text = <<"N", "?">> /\ arg.long_note = <<>> /\ arg.sep_units = <<1, 3, 7>>
    /\ ret.notes = << <<440, 2, 300>>, <<0, 0, 100>>, <<440, 2, 100>>, <<0, 0, 300>> >>

----------------------------------------------------------------------------
\* C15: right after replace(ns) the queue is ns and the buzzer's task is a
\* new one; a cancelled task, when it is run, changes neither a queue nor a
\* task reference; and while no write fails, what the buzzer still has to
\* transmit after its latest replace() is at every moment exactly its queue
\* (ns, then the notes added since, less those sent), each transmission being
\* the oldest of them.
C15_ReplacePlaysNewNotes ==
    /\ [](last.op = "replace" =>
            /\ Queue(last.b) = owed[last.b]
            /\ player_task[last.b] = Len(tasks)
            /\ tasks[Len(tasks)] = NewTask(last.b))
    /\ [][\A t \in 1..Len(tasks) :
            tasks[t].cancel /\ tasks'[t].st # tasks[t].st =>
                lists' = lists /\ player_task' = player_task]_vars
    /\ [](\A b \in Buzzers : ~NeverReplaced(b) /\ NoFailure => owed[b] = Queue(b))
    /\ [][\A b \in Buzzers :
            Transmitted(b) /\ ~NeverReplaced(b) /\ NoFailure =>
                /\ owed[b] # <<>>
                /\ last'.writes = <<Wire(b, Head(owed[b]))>>
                /\ owed'[b] = Tail(owed[b])]_vars

\* C16: no call on a buzzer and no run of a task changes a list of the
\* callers: the sequence handed to add() or replace() is still what it was
\* when the queue has drained and when later calls are made.
C16_CallerListUnchanged ==
    [][\A l \in CallerLists : lists'[l] = lists[l]]_vars

\* C17: replace(), whatever the notes and the state, cancels the task the
\* buzzer has if it can still run and starts one new task, which is then the
\* buzzer's only task that can transmit, so is_playing() is true right after
\* the call; after replace() of an empty sequence the queue is empty, and the
\* new task, first run with the queue still empty, transmits nothing and
\* retires, leaving is_playing() false.
C17_ReplaceStartsOneTask ==
    /\ [](last.op = "replace" =>
            /\ is_playing(last.b)
            /\ player_task[last.b] = Len(tasks)
            /\ tasks[Len(tasks)] = NewTask(last.b)
            /\ LiveTasks(last.b) = {Len(tasks)}
            /\ (last.n = 0 => Queue(last.b) = <<>>))
    /\ [][\A b \in Buzzers :
            calls' # calls /\ last'.op = "replace" /\ last'.b = b =>
                /\ Len(tasks') = Len(tasks) + 1
                /\ \A t \in 1..Len(tasks) :
                      /\ t = player_task[b] /\ Runnable(t) => tasks'[t].cancel
                      /\ t # player_task[b] => tasks'[t] = tasks[t]]_vars
    /\ [][\A b \in Buzzers :
            (/\ hist[b] = "replace" /\ is_playing(b) /\ Queue(b) = <<>>
             /\ tasks[player_task[b]].st = "new"
             /\ tasks'[player_task[b]].st # "new") =>
                /\ last'.op = "retire" /\ last'.writes = <<>>
                /\ ~is_playing(b)']_vars

\* replace() of an empty sequence on a buzzer whose task was suspended
C17_Witness ==
    /\ last.op = "replace" /\ last.n = 0 /\ ~last.idle
    /\ Queue(last.b) = <<>> /\ is_playing(last.b)
    /\ \E t \in 1..Len(tasks) :
          tasks[t].owner = last.b /\ tasks[t].st = "sleep" /\ tasks[t].cancel

C19_NoStrandedNotes ==
    NoFailure =>
        \A b \in Buzzers :
            Queue(b) # <<>> => is_playing(b) /\ player_task[b] \in LiveTasks(b)

\* the note at the head of b's queue fits the fields of the message
HeadFits(b) ==
    /\ Head(Queue(b))[1] <= 65535 /\ Head(Queue(b))[2] <= 255
    /\ 99 * Head(Queue(b))[3] < 65536 * 100

\* the write just made carries the fields of b's head note untruncated, its
\* task is left suspended, and the rest of the queue is left to it
SentWhole(b) ==
    /\ Len(last'.writes) = 1
    /\ U16(last'.writes[1].buf, 1) = Head(Queue(b))[1]
    /\ last'.writes[1].buf[3] = Head(Queue(b))[2]
    /\ IsFloor99(U16(last'.writes[1].buf, 4), Head(Queue(b))[3])
    /\ player_task'[b] = player_task[b]
    /\ tasks'[player_task[b]].st = "sleep" /\ ~tasks'[player_task[b]].cancel
    /\ Queue(b)' = Tail(Queue(b))

\* C20 as stated: every note of a non-negative frequency, a volume of 0 to 4
\* and a non-negative duration is transmitted with its fields untruncated
\* and without its task failing in the encoding, and the task goes on to the
\* notes queued after it.
C20_AnyNoteSentWhole ==
    /\ [][\A b \in Buzzers : Transmitted(b) => SentWhole(b)]_vars
    /\ [](last.op = "fail" => last.exc = "OSError")

\* C20 amended: the same for every note whose frequency is at most 65535
\* and whose duration is at most 66197 (adjusted, at most 65535): it is sent
\* untruncated, and the only failure of its task is that of the bus write.
C20_FieldNoteSentWhole ==
    /\ [][\A b \in Buzzers : Transmitted(b) /\ HeadFits(b) => SentWhole(b)]_vars
    /\ [][\A b \in Buzzers :
            (/\ last'.op = "fail" /\ last'.b = b /\ lists' # lists
             /\ Queue(b) # <<>> /\ HeadFits(b)) => last'.exc = "OSError"]_vars

\* the largest note the fields hold was transmitted, and after it the note
\* that was queued behind it
C20_Witness ==
    /\ last.op = "play" /\ calls = MaxCalls
    /\ ProbeNote[1] = 65535 /\ ProbeNote[3] = 66197
    /\ SentFrequency = 65535 /\ SentDuration = 65535
    /\ hist[last.b] = "add" /\ owed[last.b] = <<>> /\ Queue(last.b) = <<>>
    /\ \A c \in Buzzers \ {last.b} : hist[c] = "fresh"

----------------------------------------------------------------------------
\* a note that sounds: its frequency is not that of a silence
IsTone(note) == note[1] # 0

\* the number of Morse symbols of the first i characters of a text
RECURSIVE TonesUpTo(_, _)
TonesUpTo(text, i) ==
    IF i = 0 THEN 0 ELSE TonesUpTo(text, i - 1) + Len(MorseOf(text[i]))

\* the place of the k-th tone in a list of notes
ToneIndex(notes, k) ==
    CHOOSE p \in 1..Len(notes) :
        IsTone(notes[p]) /\ Cardinality({q \in 1..p : IsTone(notes[q])}) = k

\* the summed duration of the notes strictly between places p and q
RECURSIVE DurationBetween(_, _, _)
DurationBetween(notes, p, q) ==
    IF p + 1 >= q THEN 0 ELSE notes[p + 1][3] + DurationBetween(notes, p + 1, q)

\* the silence in the returned notes between the last tone of the i-th
\* character of the text and the tone that follows it
SilenceAfter(i) ==
    LET k == TonesUpTo(arg.text, i)
    IN  DurationBetween(ret.notes, ToneIndex(ret.notes, k), ToneIndex(ret.notes, k + 1))

\* the character at place i of the text is a letter or a digit with a code
IsKeyed(i) == i \in 1..Len(arg.text) /\ MorseOf(arg.text[i]) # <<>>

\* C21: in the notes text_to_morse_notes returns, the silence between two
\* letters that follow each other in a word lasts sep_units[1] times the
\* short note's duration, and the silence between the last tone of a word
\* and the first tone of the next word, one space apart, lasts sep_units[2]
\* times it (sep_units counted from 0).
C21_MorseGaps ==
    ret # Pending =>
        \A i \in 1..Len(arg.text) :
            /\ IsKeyed(i) /\ IsKeyed(i + 1) =>
                  SilenceAfter(i) = arg.sep_units[2] * arg.short_note[3]
            /\ IsKeyed(i) /\ IsKeyed(i + 2) /\ arg.text[i + 1] = " " =>
                  SilenceAfter(i) = arg.sep_units[3] * arg.short_note[3]

====
